---- MODULE Spec2Model ----
(***************************************************************************)
(* Model of the Mode LLM client layer:                                     *)
(*   - AIClientFactory (src/src/common/llms/aiClientFactory.ts): the       *)
(*     static instance cache, createClient, getInstance and                *)
(*     invalidateClientsForProvider;                                       *)
(*   - AIClient (src/src/common/llms/aiClient.ts): chat, the per-provider  *)
(*     streaming loops and stopGeneration, filterDiagnosticMessages and    *)
(*     the requests the provider methods build;                            *)
(*   - ChatManager (src/src/capabilities/chat/request/chat.manager.ts):    *)
(*     sendMessage, the system prompt and the session overview.            *)
(*                                                                         *)
(* Strings are sequences of tokens, so that template literals are          *)
(* concatenations and String.startsWith is a prefix test.                  *)
(***************************************************************************)
EXTENDS Naturals, Sequences, FiniteSets, TLC

VARIABLES
    instances,      \* AIClientFactory.instances : Map<string, AIClient>
    apiKeyManager,  \* AIClientFactory.apiKeyManager is set (initialize was called)
    clients,        \* the heap of constructed AIClient objects, by identity
    calls,          \* the createClient activations
    exch,           \* the AIClient.chat activations (exchanges)
    outputChannel,  \* the vscode.OutputChannel handed to chat: lines appended
    request,        \* a message history and the backend request chat builds of it
    manager         \* the ChatManager: its fields, its session, its sendMessage calls

vars == <<instances, apiKeyManager, clients, calls, exch, outputChannel,
          request, manager>>

----------------------------------------------------------------------------
(* Bounds *)

MaxCalls == 2
MaxExchanges == 2
MaxChunks == 2

----------------------------------------------------------------------------
(* Strings *)

Dash == <<"-">>

StartsWith(s, prefix) ==
    /\ Len(prefix) <= Len(s)
    /\ SubSeq(s, 1, Len(prefix)) = prefix

\* The provider and model ids the callers pass to the factory: a provider the
\* AIClient constructor knows, one whose id extends it past a dash, and the
\* provider that needs no API key; the empty model, the model named
\* 'default', and two models that spell the same key after 'anthropic-b' and
\* 'anthropic'.
ProviderIds == { <<"anthropic">>, <<"anthropic", "-", "b">>, <<"ollama">> }
ModelIds == { <<>>, <<"default">>, <<"c">>, <<"b", "-", "c">> }

Undefined == <<"undefined">>

----------------------------------------------------------------------------
(* AIClient construction *)

KnownProviders ==
    { <<"anthropic">>, <<"openai">>, <<"google">>, <<"cohere">>, <<"mistral">> }

DefaultModel(provider) ==
    CASE provider = <<"anthropic">> -> <<"claude-3-sonnet-20240229">>
      [] provider = <<"openai">>    -> <<"gpt-4-turbo-preview">>
      [] provider = <<"google">>    -> <<"gemini-pro">>
      [] provider = <<"cohere">>    -> <<"command">>
      [] provider = <<"mistral">>   -> <<"mistral-medium">>
      [] OTHER                      -> Undefined

\* new AIClient(config): provider, model and the cancellation flag.
\* config is kept as the record of what the constructor was given, and
\* idleCancel notes a stopGeneration that fell while no chat was in flight on
\* the instance.
AIClient(provider, model) ==
    [ provider    |-> provider,
      model       |-> IF provider \in KnownProviders
                        THEN (IF model = <<>> THEN DefaultModel(provider) ELSE model)
                        ELSE Undefined,
      isCancelled |-> FALSE,
      idleCancel  |-> FALSE,
      config      |-> [provider |-> provider, model |-> model] ]

----------------------------------------------------------------------------
(* AIClientFactory *)

\* `${provider}-${model || 'default'}`
instanceKey(provider, model) ==
    provider \o Dash \o (IF model = <<>> THEN <<"default">> ELSE model)

\* AIClientFactory.getInstance: a lookup, 0 standing for undefined.
getInstance(provider, model) ==
    IF instanceKey(provider, model) \in DOMAIN instances
        THEN instances[instanceKey(provider, model)]
        ELSE 0

\* A faulty store: it keeps the instance already cached under the key.
MapSetIfAbsent(map, key, id) ==
    [k \in DOMAIN map \cup {key} |-> IF k \in DOMAIN map THEN map[k] ELSE id]

\* this.instances.set(key, id)
MapSet(map, key, id) ==
    [k \in DOMAIN map \cup {key} |-> IF k = key THEN id ELSE map[k]]

\* The keys invalidateClientsForProvider deletes.
EvictedKeys(map, provider) ==
    { k \in DOMAIN map : StartsWith(k, provider \o Dash) }

MissingKeyMessage(provider) == <<"APIKey.">> \o provider \o <<".Missing">>

InitFailedMessage(provider) ==
    <<"Failed to initialize ">> \o provider \o <<" client: ">>

NoResult == [kind |-> "none", message |-> <<>>, client |-> 0]

\* One createClient activation: its arguments, the local apiKey, where it is
\* suspended and what it resolved to. expected and stale are bookkeeping about
\* the callers' view: the instances earlier calls for the same arguments were
\* given, and whether invalidate(provider) has run since this call began.
IdleCall ==
    [pc |-> "idle", provider |-> <<>>, model |-> <<>>, apiKey |-> "unset",
     result |-> NoResult, expected |-> {}, stale |-> FALSE]

CallIds == 1..MaxCalls

\* The instances the completed createClient(p, m) calls returned, counting
\* only the calls with no invalidate(p) since.
Granted(p, m) ==
    { calls[d].result.client : d \in { c \in CallIds :
        /\ calls[c].pc = "done"
        /\ calls[c].result.kind = "success"
        /\ calls[c].provider = p
        /\ calls[c].model = m
        /\ ~calls[c].stale } }

\* AIClientFactory.initialize
initialize ==
    /\ ~apiKeyManager
    /\ apiKeyManager' = TRUE
    /\ UNCHANGED <<instances, clients, calls, exch, outputChannel>>

\* createClient from the model-info lookup on (lines 40-60), run without
\* suspension by the activation whose record so far is cur: modelInfo!.endpoint
\* throws outside the try when the Model Registry does not know the model (the
\* promise rejects); an error thrown by new AIClient(config) is caught and
\* returned as a failed result; otherwise the new instance is stored and
\* returned.
Construct(c, cur, modelInfo, sdk) ==
    IF modelInfo = "undefined"
      THEN
        /\ calls' = [calls EXCEPT ![c] = [cur EXCEPT !.pc = "done",
                        !.result = [kind |-> "rejected",
                                    message |-> <<"TypeError">>, client |-> 0]]]
        /\ UNCHANGED <<instances, clients>>
      ELSE IF sdk = "throws" /\ cur.provider \in KnownProviders
        THEN
          /\ calls' = [calls EXCEPT ![c] = [cur EXCEPT !.pc = "done",
                          !.result = [kind |-> "failure",
                                      message |-> InitFailedMessage(cur.provider),
                                      client |-> 0]]]
          /\ UNCHANGED <<instances, clients>>
        ELSE
          /\ clients' = Append(clients, AIClient(cur.provider, cur.model))
          /\ instances' = MapSet(instances, instanceKey(cur.provider, cur.model),
                                 Len(clients) + 1)
          /\ calls' = [calls EXCEPT ![c] = [cur EXCEPT !.pc = "done",
                          !.result = [kind |-> "success", message |-> <<>>,
                                      client |-> Len(clients) + 1]]]

\* createClient up to its first suspension (lines 16-31): the cache lookup,
\* then either the cached instance, or the awaited credential lookup, or
\* (ollama) straight on to construction. Activations are numbered in the
\* order they begin.
createClient(c, p, m, modelInfo, sdk) ==
    /\ calls[c].pc = "idle"
    /\ \A d \in CallIds : d < c => calls[d].pc # "idle"
    /\ LET started == [calls[c] EXCEPT !.provider = p, !.model = m,
                                       !.expected = Granted(p, m)]
       IN  IF getInstance(p, m) # 0
             THEN
               /\ calls' = [calls EXCEPT ![c] =
                     [started EXCEPT !.pc = "done",
                        !.result = [kind |-> "success", message |-> <<>>,
                                    client |-> getInstance(p, m)]]]
               /\ UNCHANGED <<instances, clients>>
             ELSE IF p # <<"ollama">>
               THEN
                 /\ calls' = [calls EXCEPT ![c] = [started EXCEPT !.pc = "awaitKey"]]
                 /\ UNCHANGED <<instances, clients>>
               ELSE
                 Construct(c, started, modelInfo, sdk)
    /\ UNCHANGED <<apiKeyManager, exch, outputChannel>>

\* A faulty createClient: it goes on to construct the adapter without testing
\* the API key.
createClientResumedNoKeyCheck(c, key, modelInfo, sdk) ==
    /\ calls[c].pc = "awaitKey"
    /\ (~apiKeyManager) => key = "absent"
    /\ Construct(c, [calls[c] EXCEPT !.apiKey = key], modelInfo, sdk)
    /\ UNCHANGED <<apiKeyManager, exch, outputChannel>>

\* createClient resumed with what getApiKey resolved to (lines 31-60). With no
\* apiKeyManager the optional chain yields undefined.
createClientResumed(c, key, modelInfo, sdk) ==
    /\ calls[c].pc = "awaitKey"
    /\ (~apiKeyManager) => key = "absent"
    /\ LET cur == [calls[c] EXCEPT !.apiKey = key]
       IN  IF key = "absent"
             THEN
               /\ calls' = [calls EXCEPT ![c] = [cur EXCEPT !.pc = "done",
                     !.result = [kind |-> "failure",
                                 message |-> MissingKeyMessage(cur.provider),
                                 client |-> 0]]]
               /\ UNCHANGED <<instances, clients>>
             ELSE
               Construct(c, cur, modelInfo, sdk)
    /\ UNCHANGED <<apiKeyManager, exch, outputChannel>>

\* A faulty invalidate: it also stops the generation of the instances it
\* removes from the cache.
invalidateAndStop(provider) ==
    /\ instances' = [k \in DOMAIN instances \ EvictedKeys(instances, provider)
                        |-> instances[k]]
    /\ calls' = [c \in CallIds |->
                    IF calls[c].pc # "idle" /\ calls[c].provider = provider
                      THEN [calls[c] EXCEPT !.stale = TRUE]
                      ELSE calls[c]]
    /\ clients' = [c \in DOMAIN clients |->
                     IF \E k \in EvictedKeys(instances, provider) : instances[k] = c
                       THEN [clients[c] EXCEPT !.isCancelled = TRUE]
                       ELSE clients[c]]
    /\ UNCHANGED <<apiKeyManager, exch, outputChannel>>

\* AIClientFactory.invalidateClientsForProvider. The activations of
\* createClient(provider, _) are marked: an invalidate(provider) has run.
invalidateClientsForProvider(provider) ==
    /\ instances' = [k \in DOMAIN instances \ EvictedKeys(instances, provider)
                        |-> instances[k]]
    /\ calls' = [c \in CallIds |->
                    IF calls[c].pc # "idle" /\ calls[c].provider = provider
                      THEN [calls[c] EXCEPT !.stale = TRUE]
                      ELSE calls[c]]
    /\ UNCHANGED <<apiKeyManager, clients, exch, outputChannel>>

----------------------------------------------------------------------------
(* AIClient.chat *)

\* What the backend streams deliver. The k-th chunk of a stream either
\* carries a text fragment, told apart from the stream's other fragments, or is
\* of a kind that carries no text.
FragmentNames == <<"t1", "t2", "t3", "t4", "t5", "t6">>

Fragment(k) == << FragmentNames[k] >>

Chunks(k) ==
    { [kind |-> "text", text |-> Fragment(k)],
      [kind |-> "other", text |-> <<>>] }

\* The text the loop takes from a chunk (lines 145-146, 186, 239, 277-278, 317).
ExtractText(provider, chunk) ==
    IF chunk.kind = "text" THEN chunk.text ELSE <<>>

\* The adapters that open the stream inside the try block (lines 232-233,
\* 263-264, 302-303); anthropicChat and openaiChat await create() before it
\* (lines 131, 168).
OpensInsideTry(provider) ==
    provider \in { <<"google">>, <<"cohere">>, <<"mistral">> }

TransportError == <<"TransportError">>

UnsupportedProviderError(provider) == <<"Unsupported provider: ">> \o provider

\* `\n\nMode Client Error: ${errorMessage}`
ErrorLine(message) == <<"Mode Client Error: ">> \o message

\* One chat activation. stream is the backend transport's state and emitted
\* the chunks it has delivered; onToken and onComplete list the callbacks'
\* invocations by argument. cancelReq, cancelMid and afterIdleCancel record
\* when stopGeneration was called relative to this activation.
IdleExchange ==
    [pc |-> "idle", client |-> 0, stream |-> "unopened", emitted |-> <<>>,
     fullText |-> <<>>, onToken |-> <<>>, onComplete |-> <<>>,
     outcome |-> "none", value |-> <<>>, error |-> <<>>,
     cancelReq |-> FALSE, cancelMid |-> FALSE, afterIdleCancel |-> FALSE]

ExchangeIds == 1..MaxExchanges

InFlight(e) == exch[e].pc \in {"opening", "streaming"}

RECURSIVE Delivered(_)
\* The number of chunks the backends have delivered to exchanges 1..n.
Delivered(n) == IF n = 0 THEN 0 ELSE Len(exch[n].emitted) + Delivered(n - 1)

\* return fullText
Returns(x) ==
    [x EXCEPT !.pc = "done", !.outcome = "returned", !.value = x.fullText]

\* The activation ends with error: thrown, or its promise rejected. chat
\* returns the provider method's promise without awaiting it (lines 90-98), so
\* a rejection of that promise settles chat's own promise and does not pass
\* through chat's catch block (lines 102-107); what is thrown before the
\* return does, and chat logs it.
Throws(x, error) ==
    [x EXCEPT !.pc = "done", !.outcome = "threw", !.error = error]

\* A faulty catch block: it returns the text whether cancelled or not.
CatchStreamErrorSwallowed(x, isCancelled, error) == Returns(x)

\* The catch blocks of the streaming methods (lines 153-158, 192-197, 245-250,
\* 285-290, 323-328).
CatchStreamError(x, isCancelled, error) ==
    IF isCancelled THEN Returns(x) ELSE Throws(x, error)

\* A faulty loop body: it reports the fragments to onToken newest first.
OnChunkPrepend(x, isCancelled, text) ==
    IF isCancelled
      THEN Returns(x)
      ELSE IF text # <<>>
        THEN [x EXCEPT !.fullText = x.fullText \o text,
                       !.onToken = <<text>> \o x.onToken]
        ELSE x

\* A faulty loop body: it appends and reports the fragment without testing
\* it.
OnChunkUntested(x, isCancelled, text) ==
    IF isCancelled
      THEN Returns(x)
      ELSE [x EXCEPT !.fullText = x.fullText \o text,
                     !.onToken = Append(x.onToken, text)]

\* One pass of the for-await body on a delivered chunk (lines 141-152).
OnChunk(x, isCancelled, text) ==
    IF isCancelled
      THEN Returns(x)
      ELSE IF text # <<>>
        THEN [x EXCEPT !.fullText = x.fullText \o text,
                       !.onToken = Append(x.onToken, text)]
        ELSE x

\* A faulty epilogue: it returns the text without invoking onComplete.
OnExhaustedNoComplete(x) == Returns(x)

\* After the loop: callbacks.onComplete(fullText); return fullText.
OnExhausted(x) ==
    Returns([x EXCEPT !.onComplete = Append(x.onComplete, x.fullText)])

\* The awaited create()/chatStream()/sendMessageStream() of exchange x on
\* adapter client settles: the stream is open, or the call raised, inside the
\* try block or before it.
Opened(x, client, opened) ==
    IF opened
      THEN [x EXCEPT !.pc = "streaming", !.stream = "open"]
      ELSE IF OpensInsideTry(client.provider)
        THEN CatchStreamError([x EXCEPT !.stream = "failed"],
                              client.isCancelled, TransportError)
        ELSE Throws([x EXCEPT !.stream = "failed"], TransportError)

\* The loop of exchange x on adapter client takes a delivered chunk.
Delivers(x, client, chunk) ==
    OnChunk([x EXCEPT !.emitted = Append(x.emitted, chunk)],
            client.isCancelled, ExtractText(client.provider, chunk))

\* The stream of exchange x on adapter client raises while being read.
Raised(x, client) ==
    CatchStreamError([x EXCEPT !.stream = "failed"],
                     client.isCancelled, TransportError)

\* stopGeneration falls into exchange x, in flight.
StopRequested(x) ==
    [x EXCEPT !.cancelReq = TRUE,
              !.cancelMid = x.cancelMid
                  \/ (x.pc = "streaming" /\ x.onToken # <<>>)]

\* A faulty chat: the provider's method does not reset isCancelled.
chatNoReset(e, c) ==
    /\ exch[e].pc = "idle"
    /\ \A d \in DOMAIN exch : d < e => exch[d].pc # "idle"
    /\ c \in DOMAIN clients
    /\ IF clients[c].provider \notin KnownProviders
         THEN
           /\ exch' = [exch EXCEPT ![e] =
                 Throws([exch[e] EXCEPT !.client = c],
                        UnsupportedProviderError(clients[c].provider))]
           /\ outputChannel' = Append(outputChannel,
                 ErrorLine(UnsupportedProviderError(clients[c].provider)))
           /\ UNCHANGED clients
         ELSE
           /\ exch' = [exch EXCEPT ![e] =
                 [exch[e] EXCEPT !.pc = "opening", !.client = c,
                                 !.afterIdleCancel = clients[c].idleCancel]]
           /\ clients' = [clients EXCEPT ![c].idleCancel = FALSE]
           /\ UNCHANGED outputChannel
    /\ UNCHANGED <<instances, apiKeyManager, calls>>

\* chat() up to its first suspension (lines 84-108 and the head of the
\* provider's method): an unsupported provider throws inside chat's try, is
\* logged and rethrown; otherwise the provider's method resets isCancelled and
\* awaits the opening of the stream.
chat(e, c) ==
    /\ exch[e].pc = "idle"
    /\ \A d \in DOMAIN exch : d < e => exch[d].pc # "idle"
    /\ c \in DOMAIN clients
    /\ IF clients[c].provider \notin KnownProviders
         THEN
           /\ exch' = [exch EXCEPT ![e] =
                 Throws([exch[e] EXCEPT !.client = c],
                        UnsupportedProviderError(clients[c].provider))]
           /\ outputChannel' = Append(outputChannel,
                 ErrorLine(UnsupportedProviderError(clients[c].provider)))
           /\ UNCHANGED clients
         ELSE
           /\ exch' = [exch EXCEPT ![e] =
                 [exch[e] EXCEPT !.pc = "opening", !.client = c,
                                 !.afterIdleCancel = clients[c].idleCancel]]
           /\ clients' = [clients EXCEPT ![c].isCancelled = FALSE,
                                         ![c].idleCancel = FALSE]
           /\ UNCHANGED outputChannel
    /\ UNCHANGED <<instances, apiKeyManager, calls>>

\* The awaited create()/chatStream()/sendMessageStream() settles.
OpenStream(e, opened) ==
    /\ exch[e].pc = "opening"
    /\ exch' = [exch EXCEPT ![e] =
                  Opened(exch[e], clients[exch[e].client], opened)]
    /\ UNCHANGED <<instances, apiKeyManager, clients, calls, outputChannel>>

\* The stream delivers a chunk and the loop body runs on it.
NextChunk(e, chunk) ==
    /\ exch[e].pc = "streaming"
    /\ Delivered(Len(exch)) < MaxChunks
    /\ exch' = [exch EXCEPT ![e] =
                  Delivers(exch[e], clients[exch[e].client], chunk)]
    /\ UNCHANGED <<instances, apiKeyManager, clients, calls, outputChannel>>

\* The stream signals its end: the loop exits normally.
StreamEnd(e) ==
    /\ exch[e].pc = "streaming"
    /\ exch' = [exch EXCEPT ![e] = OnExhausted([exch[e] EXCEPT !.stream = "ended"])]
    /\ UNCHANGED <<instances, apiKeyManager, clients, calls, outputChannel>>

\* The stream raises while being read: the catch block runs.
StreamError(e) ==
    /\ exch[e].pc = "streaming"
    /\ exch' = [exch EXCEPT ![e] = Raised(exch[e], clients[exch[e].client])]
    /\ UNCHANGED <<instances, apiKeyManager, clients, calls, outputChannel>>

\* AIClient.stopGeneration (lines 110-112) on instance c.
stopGeneration(c) ==
    /\ c \in DOMAIN clients
    /\ clients' = [clients EXCEPT ![c].isCancelled = TRUE,
                      ![c].idleCancel = \A e \in DOMAIN exch :
                          ~(InFlight(e) /\ exch[e].client = c)]
    /\ exch' = [e \in DOMAIN exch |->
                  IF InFlight(e) /\ exch[e].client = c
                    THEN StopRequested(exch[e])
                    ELSE exch[e]]
    /\ UNCHANGED <<instances, apiKeyManager, calls, outputChannel>>

----------------------------------------------------------------------------
(* The message histories and the requests built of them *)

MaxHistory == 2

\* An AIMessage: role, content and the optional type marker. A content is a
\* string or an array of parts; a part is a bare string, or an object with or
\* without a type and with or without a text.
Str(text) == [kind |-> "string", text |-> text]

Arr(parts) == [kind |-> "array", parts |-> parts]

Part(type, text) == [type |-> type, text |-> text]

AIMessage(role, content, type) ==
    [role |-> role, content |-> content, type |-> type]

Sentinel == <<"Mode.">>

PngUrl == <<"data:image", "/png", ";base64,", "AAAA">>

GifUrl == <<"data:image", "/gif", ";base64,", "BBBB">>

\* The messages the histories are made of: plain turns of the three roles,
\* diagnostic entries, texts that hold the sentinel past their start, images
\* with and without the type marker, and structured contents whose parts
\* are texts, bare strings, images, a text part without text and a part
\* without type.
SampleMessages ==
    { AIMessage("system", Str(<<"sys">>), "none"),
      AIMessage("system", Str(<<"sys2">>), "none"),
      AIMessage("user", Str(<<"hi">>), "none"),
      AIMessage("assistant", Str(<<"ok">>), "none"),
      AIMessage("assistant", Str(<<"Mode.", "x">>), "none"),
      AIMessage("system", Str(<<"Mode.">>), "none"),
      AIMessage("user", Str(<<"x", "Mode.">>), "none"),
      AIMessage("user", Str(PngUrl), "image"),
      AIMessage("user", Str(PngUrl), "none"),
      AIMessage("user", Str(GifUrl), "image"),
      AIMessage("user", Arr(<< Part("text", <<"hi">>) >>), "none"),
      AIMessage("user", Arr(<< Part("image", Undefined),
                               Part("text", <<"Mode.", "x">>) >>), "none"),
      AIMessage("user", Arr(<< Part("image", Undefined) >>), "none"),
      AIMessage("user", Arr(<< Part("string", <<"Mode.", "x">>) >>), "none"),
      AIMessage("user", Arr(<< Part("text", Undefined) >>), "none"),
      AIMessage("user", Arr(<< Part("untyped", <<"Mode.", "x">>) >>), "none") }

Histories == UNION { [1..n -> SampleMessages] : n \in 0..MaxHistory }

RECURSIVE Some(_)
\* msg.content.some(item => typeof item === 'string' && item.startsWith('Mode.')
\*     || (item.type === 'text' && item.text?.startsWith('Mode.')))
Some(parts) ==
    IF parts = <<>>
      THEN FALSE
      ELSE LET item == Head(parts)
           IN  IF \/ item.type = "string" /\ StartsWith(item.text, Sentinel)
                  \/ /\ item.type = "text"
                     /\ item.text # Undefined
                     /\ StartsWith(item.text, Sentinel)
                 THEN TRUE
                 ELSE Some(Tail(parts))

\* A faulty filter predicate: it looks at the first part only.
KeepsFirstPartOnly(msg) ==
    IF msg.content.kind = "string"
      THEN ~StartsWith(msg.content.text, Sentinel)
      ELSE ~Some(SubSeq(msg.content.parts, 1, 1))

\* The predicate of filterDiagnosticMessages (lines 69-81).
Keeps(msg) ==
    IF msg.content.kind = "string"
      THEN ~StartsWith(msg.content.text, Sentinel)
      ELSE ~Some(msg.content.parts)

RECURSIVE filterDiagnosticMessages(_)
filterDiagnosticMessages(messages) ==
    IF messages = <<>>
      THEN <<>>
      ELSE IF Keeps(Head(messages))
        THEN <<Head(messages)>> \o filterDiagnosticMessages(Tail(messages))
        ELSE filterDiagnosticMessages(Tail(messages))

\* typeof msg.content === 'string' && msg.content.startsWith('data:image')
IsImageData(content) ==
    content.kind = "string" /\ StartsWith(content.text, <<"data:image">>)

\* imageData.replace(/^data:image\/(png|jpeg);base64,/, '')
StripDataUrlPrefix(imageData) ==
    IF /\ Len(imageData) >= 3
       /\ imageData[1] = "data:image"
       /\ imageData[2] \in {"/png", "/jpeg"}
       /\ imageData[3] = ";base64,"
      THEN SubSeq(imageData, 4, Len(imageData))
      ELSE imageData

ImagePlaceholder(provider) ==
    <<"[Image input not supported for ">> \o provider \o <<"]">>

\* AIClient.formatImageContent for the providers whose requests are modelled.
formatImageContent(provider, imageData) ==
    CASE provider = <<"anthropic">> ->
           Arr(<< [type |-> "image",
                   source |-> [type |-> "base64",
                               media_type |->
                                 IF StartsWith(imageData, <<"data:image", "/png">>)
                                   THEN "image/png" ELSE "image/jpeg",
                               data |-> StripDataUrlPrefix(imageData)]],
                  Part("text", <<"Describe this image.">>) >>)
      [] provider \in { <<"mistral">>, <<"cohere">> } ->
           Str(ImagePlaceholder(provider))
      [] OTHER -> Str(<<"[Image]">>)

\* messages.filter(msg => Test(msg))
Filter(messages, Test(_)) == SelectSeq(messages, Test)

\* messages.find(msg => Test(msg))?.content
Find(messages, Test(_)) ==
    LET found == { i \in DOMAIN messages : Test(messages[i]) }
    IN  IF found = {}
          THEN Undefined
          ELSE messages[CHOOSE i \in found : \A j \in found : i <= j].content

IsSystem(msg) == msg.role = "system"

NotSystem(msg) == msg.role # "system"

NotImage(msg) == msg.type # "image"

\* The content anthropicChat sends for a message (lines 123-127).
anthropicContent(content) ==
    IF IsImageData(content)
      THEN formatImageContent(<<"anthropic">>, content.text)
      ELSE IF content.kind = "array"
        THEN content
        ELSE Arr(<< Part("text", content.text) >>)

\* A faulty request: the system messages stay in the message array.
anthropicRequestInline(messages) ==
    [ system   |-> Find(messages, IsSystem),
      messages |-> [i \in DOMAIN messages |->
                      [role |-> messages[i].role,
                       content |-> anthropicContent(messages[i].content)]] ]

\* The request of anthropicChat (lines 118-138).
anthropicRequest(messages) ==
    LET nonSystemMessages == Filter(messages, NotSystem)
    IN  [ system   |-> Find(messages, IsSystem),
          messages |-> [i \in DOMAIN nonSystemMessages |->
                          [role |-> nonSystemMessages[i].role,
                           content |-> anthropicContent(nonSystemMessages[i].content)]] ]

\* The request of cohereChat (lines 260-271).
cohereRequest(messages) ==
    LET filteredMessages == Filter(messages, NotImage)
    IN  [ messages |-> [i \in DOMAIN filteredMessages |->
                          [role |-> filteredMessages[i].role,
                           content |-> filteredMessages[i].content]] ]

\* The request of mistralChat (lines 299-311); a content that is not a string
\* goes through JSON.stringify.
mistralRequest(messages) ==
    LET filteredMessages == Filter(messages, NotImage)
    IN  [ messages |-> [i \in DOMAIN filteredMessages |->
                          [role |-> filteredMessages[i].role,
                           content |->
                             IF filteredMessages[i].content.kind = "string"
                               THEN filteredMessages[i].content
                               ELSE [kind |-> "json",
                                     value |-> filteredMessages[i].content.parts]]] ]

RequestProviders == { <<"anthropic">>, <<"cohere">>, <<"mistral">> }

\* chat from its entry to the call of the backend SDK (lines 86-98 and the
\* head of the provider's method): the diagnostic filter, then the request.
chatRequest ==
    /\ request.pc = "idle"
    /\ LET filteredMessages == filterDiagnosticMessages(request.messages)
       IN  request' = [request EXCEPT
             !.pc = "built",
             !.filtered = filteredMessages,
             !.body = CASE request.provider = <<"anthropic">> ->
                             anthropicRequest(filteredMessages)
                        [] request.provider = <<"cohere">> ->
                             cohereRequest(filteredMessages)
                        [] request.provider = <<"mistral">> ->
                             mistralRequest(filteredMessages)]
    /\ UNCHANGED <<instances, apiKeyManager, clients, calls, exch,
                   outputChannel, manager>>

----------------------------------------------------------------------------
(* ChatManager *)

NewChat == <<"New Chat">>

\* The settings initializeSystemPrompt reads: isChatPrePromptDisabled(),
\* isPromptOverrideEmpty() and isChatAdditionalPromptEmpty().
Configs ==
    [ prePromptDisabled : BOOLEAN, promptOverrideEmpty : BOOLEAN,
      additionalPromptEmpty : BOOLEAN ]

SessionMessage(role, content) == [role |-> role, content |-> content]

\* One sendMessage activation: where it is suspended, the createClient
\* activation and the summary exchange it started, how it ended, and the
\* overview its generateSessionOverview resolved to. systemBefore and
\* systemAtDelegation count the system messages of the session before the
\* system prompt was looked at and when handleMessage was called;
\* disableSystemPrompt is the local of initializeSystemPrompt, or of what it
\* would have been.
IdleSend ==
    [pc |-> "idle", model |-> <<>>, call |-> 0, client |-> 0,
     systemBefore |-> 0, systemAtDelegation |-> 0, disableSystemPrompt |-> FALSE,
     summary |-> 0, overviewPc |-> "none", overview |-> <<>>,
     outcome |-> "none", posted |-> <<>>]

SendIds == 1..MaxExchanges

\* modelInfo.provider (line 47) of the models selected.
ProviderOfModel(model) == <<"anthropic">>

SystemCount(messages) ==
    Cardinality({ i \in DOMAIN messages : messages[i].role = "system" })

\* A faulty hasSystemPrompt: it looks at the last message only.
hasSystemPromptLast(messages) ==
    messages # <<>> /\ messages[Len(messages)].role = "system"

\* ChatManager.hasSystemPrompt (lines 60-63)
hasSystemPrompt(messages) ==
    \E i \in DOMAIN messages : messages[i].role = "system"

\* ChatManager.initializeSystemPrompt (lines 72-88): the session messages
\* after it.
initializeSystemPrompt(messages, config) ==
    LET disableSystemPrompt ==
            config.prePromptDisabled /\ config.promptOverrideEmpty
        promptOverride ==
            IF config.promptOverrideEmpty THEN <<>> ELSE <<"override">>
        chosen ==
            IF disableSystemPrompt
              THEN <<>>
              ELSE (IF promptOverride # <<>> THEN promptOverride ELSE <<"base">>)
        systemPrompt ==
            IF ~config.additionalPromptEmpty
              THEN chosen \o <<" ", "additional">>
              ELSE chosen
    IN  IF ~disableSystemPrompt
          THEN Append(messages, SessionMessage("system", systemPrompt))
          ELSE messages

\* sendMessage from the system prompt to the call of handleMessage (lines
\* 113-124), which puts the user's message into the session and delegates
\* the exchange to the adapter.
Delegate(mgr, s, c, config) ==
    LET prompted == IF ~hasSystemPrompt(mgr.messages)
                      THEN initializeSystemPrompt(mgr.messages, config)
                      ELSE mgr.messages
    IN  [mgr EXCEPT
           !.messages = Append(prompted, SessionMessage("user", <<"message">>)),
           !.send[s].pc = "primary",
           !.send[s].client = c,
           !.send[s].systemBefore = SystemCount(mgr.messages),
           !.send[s].systemAtDelegation = SystemCount(prompted),
           !.send[s].disableSystemPrompt =
               config.prePromptDisabled /\ config.promptOverrideEmpty]

\* sendMessage up to its first suspension (lines 102, 45-49): with the model
\* unchanged and a client at hand initializeClient returns at once;
\* otherwise the model info is read and the API key awaited.
sendMessage(s, selectedModel, modelInfo, config) ==
    /\ manager.send[s].pc = "idle"
    /\ \A t \in SendIds : t < s => manager.send[t].pc # "idle"
    /\ LET started == [manager EXCEPT !.send[s].model = selectedModel]
       IN  manager' =
             IF manager.currentModel # selectedModel \/ manager.aiClient = 0
               THEN IF modelInfo = "undefined"
                      THEN [started EXCEPT !.send[s].pc = "done",
                                           !.send[s].outcome = "threw"]
                      ELSE [started EXCEPT !.send[s].pc = "awaitKey"]
               ELSE Delegate(started, s, manager.aiClient, config)
    /\ UNCHANGED <<instances, apiKeyManager, clients, calls, exch,
                   outputChannel, request>>

\* initializeClient resumed with the API key (lines 49-50): it calls
\* AIClientFactory.createClient, whose activation c runs to its own first
\* suspension, and awaits it.
initializeClient(s, c, modelInfo, sdk) ==
    /\ manager.send[s].pc = "awaitKey"
    /\ createClient(c, ProviderOfModel(manager.send[s].model),
                    manager.send[s].model, modelInfo, sdk)
    /\ manager' = [manager EXCEPT !.send[s].pc = "awaitClient",
                                  !.send[s].call = c]
    /\ UNCHANGED request

\* sendMessage resumed with the result of createClient (lines 51-57 and
\* 102-124): a failure is posted to the webview and sendMessage returns; on
\* success the client and the model are kept and the exchange is delegated.
initializeClientResumed(s, config) ==
    /\ manager.send[s].pc = "awaitClient"
    /\ calls[manager.send[s].call].pc = "done"
    /\ LET result == calls[manager.send[s].call].result
       IN  manager' =
             CASE result.kind = "rejected" ->
                    [manager EXCEPT !.send[s].pc = "done",
                                    !.send[s].outcome = "threw"]
               [] result.kind = "failure" ->
                    [manager EXCEPT !.send[s].pc = "done",
                                    !.send[s].outcome = "returned",
                                    !.send[s].posted = result.message]
               [] result.kind = "success" ->
                    Delegate([manager EXCEPT
                                !.aiClient = result.client,
                                !.currentModel = manager.send[s].model],
                             s, result.client, config)
    /\ UNCHANGED <<instances, apiKeyManager, clients, calls, exch,
                   outputChannel, request>>

\* A faulty generateSessionOverview: it returns what onComplete gave it,
\* empty or not.
overviewNoDefault(x) ==
    IF x.outcome = "threw"
      THEN NewChat
      ELSE IF x.onComplete # <<>> THEN x.onComplete[Len(x.onComplete)] ELSE <<>>

\* What generateSessionOverview resolves to once its chat call x is settled
\* (lines 138-152).
overview(x) ==
    IF x.outcome = "threw"
      THEN NewChat
      ELSE LET text == IF x.onComplete # <<>>
                         THEN x.onComplete[Len(x.onComplete)]
                         ELSE <<>>
           IN  IF text # <<>> THEN text ELSE NewChat

\* sendMessage resumed when handleMessage settles (lines 124-131): if it
\* threw, sendMessage rejects; otherwise the sessions are saved,
\* generateSessionOverview is called and runs to the first suspension of its
\* chat call, and sendMessage returns without awaiting it.
handleMessageSettled(s, ok, e) ==
    /\ manager.send[s].pc = "primary"
    /\ IF ~ok
         THEN
           /\ manager' = [manager EXCEPT !.send[s].pc = "done",
                                         !.send[s].outcome = "threw"]
           /\ UNCHANGED <<instances, apiKeyManager, clients, calls, exch,
                          outputChannel>>
         ELSE
           LET saved == [manager EXCEPT
                   !.messages = Append(manager.messages,
                                       SessionMessage("assistant", <<"response">>)),
                   !.saved = manager.saved + 1,
                   !.send[s].pc = "done",
                   !.send[s].outcome = "returned",
                   !.send[s].overviewPc = "pending"]
           IN  IF manager.aiClient = 0
                 THEN
                   /\ manager' = saved
                   /\ UNCHANGED <<instances, apiKeyManager, clients, calls, exch,
                                  outputChannel>>
                 ELSE
                   /\ chat(e, manager.aiClient)
                   /\ manager' = [saved EXCEPT !.send[s].summary = e]
    /\ UNCHANGED request

\* The promise of generateSessionOverview resolves and its then-callback runs
\* (lines 128-130, 149-152).
overviewSettled(s) ==
    /\ manager.send[s].overviewPc = "pending"
    /\ manager.send[s].summary # 0 => exch[manager.send[s].summary].pc = "done"
    /\ LET text == IF manager.send[s].summary = 0
                     THEN NewChat
                     ELSE overview(exch[manager.send[s].summary])
       IN  manager' = [manager EXCEPT
                         !.send[s].overviewPc = "settled",
                         !.send[s].overview = text,
                         !.overviews = Append(manager.overviews, text)]
    /\ UNCHANGED <<instances, apiKeyManager, clients, calls, exch,
                   outputChannel, request>>

----------------------------------------------------------------------------
(* Specifications *)

\* No request under construction, no ChatManager.
NoRequest == [pc |-> "none"]

NoManager == [pc |-> "none"]

EmptyMap == [k \in {} |-> 0]

\* The factory before any call.
Init ==
    /\ instances = EmptyMap
    /\ apiKeyManager = FALSE
    /\ clients = <<>>
    /\ calls = [c \in CallIds |-> IdleCall]
    /\ exch = [e \in ExchangeIds |-> IdleExchange]
    /\ outputChannel = <<>>
    /\ request = NoRequest
    /\ manager = NoManager

Next ==
    \/ initialize
          /\ UNCHANGED <<request, manager>>
    \/ \E c \in CallIds, p \in ProviderIds, m \in ModelIds,
          modelInfo \in {"found", "undefined"}, sdk \in {"ok", "throws"} :
            createClient(c, p, m, modelInfo, sdk)
          /\ UNCHANGED <<request, manager>>
    \/ \E c \in CallIds, key \in {"absent", "present"},
          modelInfo \in {"found", "undefined"}, sdk \in {"ok", "throws"} :
            createClientResumed(c, key, modelInfo, sdk)
          /\ UNCHANGED <<request, manager>>
    \/ \E p \in ProviderIds : invalidateClientsForProvider(p)
          /\ UNCHANGED <<request, manager>>

Spec == Init /\ [][Next]_vars

\* Concurrent createClient calls for one provider and one model, under every
\* answer of the Model Registry, the Credential Provider and the SDK
\* constructor, with invalidations of that provider in between.
RaceProvider == <<"anthropic">>
RaceModel == <<"c">>

NextRace ==
    \/ initialize
          /\ UNCHANGED <<request, manager>>
    \/ \E c \in CallIds,
          modelInfo \in {"found", "undefined"}, sdk \in {"ok", "throws"} :
            createClient(c, RaceProvider, RaceModel, modelInfo, sdk)
          /\ UNCHANGED <<request, manager>>
    \/ \E c \in CallIds, key \in {"absent", "present"},
          modelInfo \in {"found", "undefined"}, sdk \in {"ok", "throws"} :
            createClientResumed(c, key, modelInfo, sdk)
          /\ UNCHANGED <<request, manager>>
    \/ invalidateClientsForProvider(RaceProvider)
          /\ UNCHANGED <<request, manager>>

SpecRace == Init /\ [][NextRace]_vars

\* The chat specification starts with one adapter, as createClient made it and
\* cached it. anthropicChat awaits the opening of the stream before its try
\* block, as openaiChat does; mistralChat inside it, as googleChat and
\* cohereChat do; 'ollama' is a provider the factory accepts and the chat
\* switch does not know.
ChatProviders == { <<"anthropic">>, <<"mistral">>, <<"ollama">> }

InitChat ==
    /\ \E p \in ChatProviders :
         /\ clients = << AIClient(p, <<>>) >>
         /\ instances = MapSet(EmptyMap, instanceKey(p, <<>>), 1)
    /\ apiKeyManager = TRUE
    /\ calls = [c \in CallIds |-> IdleCall]
    /\ exch = [e \in ExchangeIds |-> IdleExchange]
    /\ outputChannel = <<>>
    /\ request = NoRequest
    /\ manager = NoManager

NextChat ==
    \/ \E e \in ExchangeIds, c \in DOMAIN clients : chat(e, c)
          /\ UNCHANGED <<request, manager>>
    \/ \E e \in ExchangeIds, opened \in BOOLEAN : OpenStream(e, opened)
          /\ UNCHANGED <<request, manager>>
    \/ \E e \in ExchangeIds : \E chunk \in Chunks(Len(exch[e].emitted) + 1) :
          NextChunk(e, chunk)
          /\ UNCHANGED <<request, manager>>
    \/ \E e \in ExchangeIds : StreamEnd(e)
          /\ UNCHANGED <<request, manager>>
    \/ \E e \in ExchangeIds : StreamError(e)
          /\ UNCHANGED <<request, manager>>
    \/ \E c \in DOMAIN clients : stopGeneration(c)
          /\ UNCHANGED <<request, manager>>
    \/ \E c \in DOMAIN clients : invalidateClientsForProvider(clients[c].provider)
          /\ UNCHANGED <<request, manager>>

SpecChat == InitChat /\ [][NextChat]_vars

\* Invalidation during an exchange: the chat specification, with
\* invalidateClientsForProvider called only while a chat call is in flight on
\* an instance the call removes from the cache.
EvictsInFlight(provider) ==
    \E e \in ExchangeIds, k \in EvictedKeys(instances, provider) :
        InFlight(e) /\ instances[k] = exch[e].client

NextEvict ==
    \/ \E e \in ExchangeIds, c \in DOMAIN clients : chat(e, c)
          /\ UNCHANGED <<request, manager>>
    \/ \E e \in ExchangeIds, opened \in BOOLEAN : OpenStream(e, opened)
          /\ UNCHANGED <<request, manager>>
    \/ \E e \in ExchangeIds : \E chunk \in Chunks(Len(exch[e].emitted) + 1) :
          NextChunk(e, chunk)
          /\ UNCHANGED <<request, manager>>
    \/ \E e \in ExchangeIds : StreamEnd(e)
          /\ UNCHANGED <<request, manager>>
    \/ \E e \in ExchangeIds : StreamError(e)
          /\ UNCHANGED <<request, manager>>
    \/ \E c \in DOMAIN clients : stopGeneration(c)
          /\ UNCHANGED <<request, manager>>
    \/ \E c \in DOMAIN clients :
          /\ EvictsInFlight(clients[c].provider)
          /\ invalidateClientsForProvider(clients[c].provider)
          /\ UNCHANGED <<request, manager>>

SpecEvict == InitChat /\ [][NextEvict]_vars

\* One adapter shared by concurrent exchanges: the instance cached for
\* ('openai', '') serves one chat call more than the chat specification
\* allows, so that a further call can start while two are in flight.
SharedIds == 1..(MaxExchanges + 1)

InitShared ==
    /\ clients = << AIClient(<<"openai">>, <<>>) >>
    /\ instances = MapSet(EmptyMap, instanceKey(<<"openai">>, <<>>), 1)
    /\ apiKeyManager = TRUE
    /\ calls = [c \in CallIds |-> IdleCall]
    /\ exch = [e \in SharedIds |-> IdleExchange]
    /\ outputChannel = <<>>
    /\ request = NoRequest
    /\ manager = NoManager

NextShared ==
    \/ \E e \in SharedIds, c \in DOMAIN clients : chat(e, c)
          /\ UNCHANGED <<request, manager>>
    \/ \E e \in SharedIds, opened \in BOOLEAN : OpenStream(e, opened)
          /\ UNCHANGED <<request, manager>>
    \/ \E e \in SharedIds : \E chunk \in Chunks(Len(exch[e].emitted) + 1) :
          NextChunk(e, chunk)
          /\ UNCHANGED <<request, manager>>
    \/ \E e \in SharedIds : StreamEnd(e)
          /\ UNCHANGED <<request, manager>>
    \/ \E e \in SharedIds : StreamError(e)
          /\ UNCHANGED <<request, manager>>
    \/ \E c \in DOMAIN clients : stopGeneration(c)
          /\ UNCHANGED <<request, manager>>

SpecShared == InitShared /\ [][NextShared]_vars

\* The five adapters side by side: one instance per provider the chat switch
\* knows, each serving one chat call, and every event of the backend and of
\* the user given to all five at once: the calls start together, the streams
\* open or fail to open together, deliver the same chunks, end or raise
\* together, and stopGeneration is called on all five at the same point. An
\* event passes by the calls that have ended already.
AdapterProviders ==
    << <<"anthropic">>, <<"openai">>, <<"google">>, <<"cohere">>, <<"mistral">> >>

AdapterIds == DOMAIN AdapterProviders

\* The chunks of the five streams: with text, with an empty text, or of a
\* kind that carries none.
AllChunks(k) == Chunks(k) \cup { [kind |-> "text", text |-> <<>>] }

InitLockstep ==
    /\ clients = [i \in AdapterIds |-> AIClient(AdapterProviders[i], <<>>)]
    /\ instances = [k \in { instanceKey(AdapterProviders[i], <<>>) : i \in AdapterIds }
                      |-> CHOOSE i \in AdapterIds :
                              k = instanceKey(AdapterProviders[i], <<>>)]
    /\ apiKeyManager = TRUE
    /\ calls = [c \in CallIds |-> IdleCall]
    /\ exch = [e \in AdapterIds |-> IdleExchange]
    /\ outputChannel = <<>>
    /\ request = NoRequest
    /\ manager = NoManager

\* chat() is called on the five instances (lines 84-98 and the heads of the
\* five methods).
LockstepChat ==
    /\ \A e \in AdapterIds : exch[e].pc = "idle"
    /\ exch' = [e \in AdapterIds |->
                  [exch[e] EXCEPT !.pc = "opening", !.client = e,
                                  !.afterIdleCancel = clients[e].idleCancel]]
    /\ clients' = [c \in AdapterIds |->
                     [clients[c] EXCEPT !.isCancelled = FALSE,
                                        !.idleCancel = FALSE]]
    /\ UNCHANGED <<instances, apiKeyManager, calls, outputChannel,
                   request, manager>>

LockstepOpen(opened) ==
    /\ \E e \in AdapterIds : exch[e].pc = "opening"
    /\ exch' = [e \in AdapterIds |->
                  IF exch[e].pc = "opening"
                    THEN Opened(exch[e], clients[e], opened)
                    ELSE exch[e]]
    /\ UNCHANGED <<instances, apiKeyManager, clients, calls, outputChannel,
                   request, manager>>

LockstepChunk(chunk) ==
    /\ \E e \in AdapterIds : exch[e].pc = "streaming"
    /\ \A e \in AdapterIds : Len(exch[e].emitted) < MaxChunks
    /\ exch' = [e \in AdapterIds |->
                  IF exch[e].pc = "streaming"
                    THEN Delivers(exch[e], clients[e], chunk)
                    ELSE exch[e]]
    /\ UNCHANGED <<instances, apiKeyManager, clients, calls, outputChannel,
                   request, manager>>

LockstepEnd ==
    /\ \E e \in AdapterIds : exch[e].pc = "streaming"
    /\ exch' = [e \in AdapterIds |->
                  IF exch[e].pc = "streaming"
                    THEN OnExhausted([exch[e] EXCEPT !.stream = "ended"])
                    ELSE exch[e]]
    /\ UNCHANGED <<instances, apiKeyManager, clients, calls, outputChannel,
                   request, manager>>

LockstepError ==
    /\ \E e \in AdapterIds : exch[e].pc = "streaming"
    /\ exch' = [e \in AdapterIds |->
                  IF exch[e].pc = "streaming"
                    THEN Raised(exch[e], clients[e])
                    ELSE exch[e]]
    /\ UNCHANGED <<instances, apiKeyManager, clients, calls, outputChannel,
                   request, manager>>

\* stopGeneration() on the five instances (lines 110-112).
LockstepStop ==
    /\ clients' = [c \in AdapterIds |->
                     [clients[c] EXCEPT !.isCancelled = TRUE,
                                        !.idleCancel = ~InFlight(c)]]
    /\ exch' = [e \in AdapterIds |->
                  IF InFlight(e) THEN StopRequested(exch[e]) ELSE exch[e]]
    /\ UNCHANGED <<instances, apiKeyManager, calls, outputChannel,
                   request, manager>>

NextLockstep ==
    \/ LockstepChat
    \/ \E opened \in BOOLEAN : LockstepOpen(opened)
    \/ \E chunk \in AllChunks(Len(exch[1].emitted) + 1) : LockstepChunk(chunk)
    \/ LockstepEnd
    \/ LockstepError
    \/ LockstepStop

SpecLockstep == InitLockstep /\ [][NextLockstep]_vars

\* Every adapter on every stream: the instance of one of the five providers
\* of the chat switch, or of 'ollama', which the switch does not know; at
\* most MaxStreams chat calls on it, concurrent or not; streams whose chunks
\* carry a text, an empty text or none; stopGeneration at any point.
MaxStreams == 1

StreamIds == 1..MaxStreams

SwitchProviders == KnownProviders \cup { <<"ollama">> }

InitAdapters ==
    /\ \E p \in SwitchProviders :
         /\ clients = << AIClient(p, <<>>) >>
         /\ instances = MapSet(EmptyMap, instanceKey(p, <<>>), 1)
    /\ apiKeyManager = TRUE
    /\ calls = [c \in CallIds |-> IdleCall]
    /\ exch = [e \in StreamIds |-> IdleExchange]
    /\ outputChannel = <<>>
    /\ request = NoRequest
    /\ manager = NoManager

NextAdapters ==
    \/ \E e \in StreamIds, c \in DOMAIN clients : chat(e, c)
          /\ UNCHANGED <<request, manager>>
    \/ \E e \in StreamIds, opened \in BOOLEAN : OpenStream(e, opened)
          /\ UNCHANGED <<request, manager>>
    \/ \E e \in StreamIds : \E chunk \in AllChunks(Len(exch[e].emitted) + 1) :
          NextChunk(e, chunk)
          /\ UNCHANGED <<request, manager>>
    \/ \E e \in StreamIds : StreamEnd(e)
          /\ UNCHANGED <<request, manager>>
    \/ \E e \in StreamIds : StreamError(e)
          /\ UNCHANGED <<request, manager>>
    \/ \E c \in DOMAIN clients : stopGeneration(c)
          /\ UNCHANGED <<request, manager>>

SpecAdapters == InitAdapters /\ [][NextAdapters]_vars

\* The backends answer: the awaited opening of a stream settles, and a stream
\* that is open delivers finitely many chunks (MaxChunks bounds them) and
\* then ends or raises.
BackendAnswers ==
    \A e \in StreamIds :
        /\ WF_vars(\E opened \in BOOLEAN : OpenStream(e, opened)
                                             /\ UNCHANGED <<request, manager>>)
        /\ WF_vars((StreamEnd(e) \/ StreamError(e))
                        /\ UNCHANGED <<request, manager>>)

SpecAdaptersLive == SpecAdapters /\ BackendAnswers

\* The requests: a chat call of an adapter of one of the three providers on
\* any history of at most MaxHistory messages.
InitRequest ==
    /\ instances = EmptyMap
    /\ apiKeyManager = TRUE
    /\ clients = <<>>
    /\ calls = [c \in CallIds |-> IdleCall]
    /\ exch = [e \in ExchangeIds |-> IdleExchange]
    /\ outputChannel = <<>>
    /\ \E p \in RequestProviders, h \in Histories :
         request = [pc |-> "idle", provider |-> p, messages |-> h,
                    filtered |-> <<>>, body |-> [messages |-> <<>>]]
    /\ manager = NoManager

NextRequest == chatRequest

SpecRequest == InitRequest /\ [][NextRequest]_vars

\* The ChatManager of one view on a session that is new or was loaded with
\* its system prompt, sending messages for one model. The summary calls are
\* chat activations on the manager's client.
ManagerModels == { <<"c">> }

InitManager ==
    /\ instances = EmptyMap
    /\ apiKeyManager = TRUE
    /\ clients = <<>>
    /\ calls = [c \in CallIds |-> IdleCall]
    /\ exch = [e \in ExchangeIds |-> IdleExchange]
    /\ outputChannel = <<>>
    /\ request = NoRequest
    /\ \E loaded \in { <<>>,
                       << SessionMessage("system", <<"base">>),
                          SessionMessage("user", <<"message">>),
                          SessionMessage("assistant", <<"response">>) >> } :
         manager = [ aiClient |-> 0, currentModel |-> <<>>, messages |-> loaded,
                     saved |-> 0, overviews |-> <<>>,
                     send |-> [s \in SendIds |-> IdleSend] ]

\* The settings as installed: pre-prompt on, no override, no additional
\* prompt.
DefaultConfig ==
    [ prePromptDisabled |-> FALSE, promptOverrideEmpty |-> TRUE,
      additionalPromptEmpty |-> TRUE ]

\* The system prompt: sendMessage calls under every setting, whatever the
\* Model Registry, the Credential Provider, the SDK constructor and
\* handleMessage answer; the backend of the summary calls stays silent.
NextPrompt ==
    \/ \E s \in SendIds, m \in ManagerModels,
          modelInfo \in {"found", "undefined"}, config \in Configs :
            sendMessage(s, m, modelInfo, config)
    \/ \E s \in SendIds, c \in CallIds,
          modelInfo \in {"found", "undefined"}, sdk \in {"ok", "throws"} :
            initializeClient(s, c, modelInfo, sdk)
    \/ \E c \in CallIds, key \in {"absent", "present"},
          modelInfo \in {"found", "undefined"}, sdk \in {"ok", "throws"} :
            createClientResumed(c, key, modelInfo, sdk)
          /\ UNCHANGED <<request, manager>>
    \/ \E s \in SendIds, config \in Configs : initializeClientResumed(s, config)
    \/ \E s \in SendIds, ok \in BOOLEAN, e \in ExchangeIds :
          handleMessageSettled(s, ok, e)

SpecPrompt == InitManager /\ [][NextPrompt]_vars

\* The session overview: messages sent one at a time on a new session, under
\* the installed settings, with a client initialization that succeeds; the
\* summary calls run under every behaviour of the backend stream and every
\* stopGeneration, also while the next message is handled.
MaxSends == 1

InitOverview ==
    /\ InitManager
    /\ manager.messages = <<>>

NextOverview ==
    \/ \E s \in 1..MaxSends, m \in ManagerModels :
          /\ \A t \in SendIds : t < s => manager.send[t].pc = "done"
          /\ sendMessage(s, m, "found", DefaultConfig)
    \/ \E s \in SendIds, c \in CallIds : initializeClient(s, c, "found", "ok")
    \/ \E c \in CallIds : createClientResumed(c, "present", "found", "ok")
          /\ UNCHANGED <<request, manager>>
    \/ \E s \in SendIds : initializeClientResumed(s, DefaultConfig)
    \/ \E s \in SendIds, ok \in BOOLEAN, e \in ExchangeIds :
          handleMessageSettled(s, ok, e)
    \/ \E e \in ExchangeIds, opened \in BOOLEAN : OpenStream(e, opened)
          /\ UNCHANGED <<request, manager>>
    \/ \E e \in ExchangeIds : \E chunk \in Chunks(Len(exch[e].emitted) + 1) :
          NextChunk(e, chunk)
          /\ UNCHANGED <<request, manager>>
    \/ \E e \in ExchangeIds : StreamEnd(e)
          /\ UNCHANGED <<request, manager>>
    \/ \E e \in ExchangeIds : StreamError(e)
          /\ UNCHANGED <<request, manager>>
    \/ \E c \in DOMAIN clients : stopGeneration(c)
          /\ UNCHANGED <<request, manager>>
    \/ \E s \in SendIds : overviewSettled(s)

SpecOverview == InitOverview /\ [][NextOverview]_vars

\* The client the manager keeps: messages sent one at a time on a new
\* session, under the installed settings, whatever the Model Registry, the
\* Credential Provider, the SDK constructor and handleMessage answer, with
\* the provider's clients invalidated at any point; the backend of the
\* summary calls stays silent.
NextKept ==
    \/ \E s \in SendIds, m \in ManagerModels, modelInfo \in {"found", "undefined"} :
          /\ \A t \in SendIds : t < s => manager.send[t].pc = "done"
          /\ sendMessage(s, m, modelInfo, DefaultConfig)
    \/ \E s \in SendIds, c \in CallIds,
          modelInfo \in {"found", "undefined"}, sdk \in {"ok", "throws"} :
            initializeClient(s, c, modelInfo, sdk)
    \/ \E c \in CallIds, key \in {"absent", "present"},
          modelInfo \in {"found", "undefined"}, sdk \in {"ok", "throws"} :
            createClientResumed(c, key, modelInfo, sdk)
          /\ UNCHANGED <<request, manager>>
    \/ \E s \in SendIds : initializeClientResumed(s, DefaultConfig)
    \/ \E s \in SendIds, ok \in BOOLEAN, e \in ExchangeIds :
          handleMessageSettled(s, ok, e)
    \/ \E m \in ManagerModels : invalidateClientsForProvider(ProviderOfModel(m))
          /\ UNCHANGED <<request, manager>>

SpecKept == InitOverview /\ [][NextKept]_vars

----------------------------------------------------------------------------
(* Properties *)

RECURSIVE Flat(_)
\* The concatenation, in order, of a sequence of strings.
Flat(ss) == IF ss = <<>> THEN <<>> ELSE Head(ss) \o Flat(Tail(ss))

RECURSIVE Texts(_, _)
\* The non-empty text fragments of a sequence of chunks, in order.
Texts(provider, chunks) ==
    IF chunks = <<>>
      THEN <<>>
      ELSE IF ExtractText(provider, Head(chunks)) # <<>>
        THEN <<ExtractText(provider, Head(chunks))>> \o Texts(provider, Tail(chunks))
        ELSE Texts(provider, Tail(chunks))

IsPrefix(s, t) == Len(s) <= Len(t) /\ SubSeq(t, 1, Len(s)) = s

ProviderOf(e) == clients[exch[e].client].provider

\* The fragments the backend has delivered to exchange e, in emission order.
EmittedTexts(e) == Texts(ProviderOf(e), exch[e].emitted)

\* C1: a chat call on which stopGeneration was called after at least one
\* onToken and before the stream was exhausted never invokes onComplete, and
\* returns the concatenation of the fragments passed to onToken, wherever
\* between chunks the cancel fell.
C1_CancelMidStream ==
    \A e \in ExchangeIds :
        (exch[e].pc = "done" /\ exch[e].cancelMid) =>
            /\ exch[e].onComplete = <<>>
            /\ exch[e].outcome = "returned"
            /\ exch[e].value = Flat(exch[e].onToken)

\* C2: a createClient(P, M) that begins after a createClient(P, M) succeeded,
\* with no invalidate(P) since, succeeds with that same instance, without
\* asking for the API key.
C2_SecondCallSameInstance ==
    \A c \in CallIds :
        (calls[c].pc = "done" /\ calls[c].expected # {} /\ ~calls[c].stale) =>
            /\ calls[c].result.kind = "success"
            /\ calls[c].expected = {calls[c].result.client}
            /\ calls[c].apiKey = "unset"

\* C3: invalidate(P) removes exactly the cached entries created for provider
\* P: every entry whose instance was made for P goes, every entry made for
\* another provider stays, mapped to the same instance.
C3_InvalidateExactlyProvider ==
    [][ \A p \in ProviderIds :
          invalidateClientsForProvider(p) =>
            \A k \in DOMAIN instances :
              IF clients[instances[k]].config.provider = p
                THEN k \notin DOMAIN instances'
                ELSE k \in DOMAIN instances' /\ instances'[k] = instances[k] ]_vars

\* C4: when the credential lookup of createClient(X, m) yields nothing, the
\* call returns the failure APIKey.X.Missing with no client, and the step
\* that returns it constructs no adapter and leaves the instance cache as it
\* was.
C4_MissingCredential ==
    /\ [](\A c \in CallIds :
            (calls[c].pc = "done" /\ calls[c].apiKey = "absent") =>
                calls[c].result = [kind |-> "failure",
                                   message |-> MissingKeyMessage(calls[c].provider),
                                   client |-> 0])
    /\ [][ \A c \in CallIds :
            (calls[c].pc = "awaitKey" /\ calls'[c].pc = "done"
                /\ calls'[c].apiKey = "absent") =>
                (instances' = instances /\ clients' = clients) ]_vars

C4_Witness ==
    \E c \in CallIds :
        /\ apiKeyManager
        /\ calls[c].pc = "done"
        /\ calls[c].apiKey = "absent"
        /\ calls[c].result.kind = "failure"
        /\ instanceKey(calls[c].provider, calls[c].model) \notin DOMAIN instances
        /\ instances # EmptyMap

\* C5: a chat call whose stream was exhausted, with no stopGeneration during
\* the call and no stream error, has invoked onComplete exactly once, with the
\* concatenation of all the fragments the backend delivered, and has returned
\* that text.
C5_CompleteOnExhaustion ==
    \A e \in ExchangeIds :
        (exch[e].pc = "done" /\ exch[e].stream = "ended" /\ ~exch[e].cancelReq) =>
            /\ exch[e].onComplete = << Flat(EmittedTexts(e)) >>
            /\ exch[e].outcome = "returned"
            /\ exch[e].value = Flat(EmittedTexts(e))

C5_Witness ==
    \E e \in ExchangeIds :
        /\ exch[e].pc = "done"
        /\ exch[e].stream = "ended"
        /\ ~exch[e].cancelReq
        /\ Len(exch[e].onToken) = 2
        /\ exch[e].onComplete # <<>>

\* C6: for every exchange, whatever the other exchanges, cancels and
\* invalidations do: the fragments passed to onToken are, in order, the first
\* fragments the backend delivered; onComplete is invoked at most once; and
\* once onComplete was invoked no further onToken is.
C6_CallbackOrder ==
    /\ [](\A e \in ExchangeIds :
            exch[e].pc # "idle" =>
                /\ IsPrefix(exch[e].onToken, EmittedTexts(e))
                /\ Len(exch[e].onComplete) <= 1)
    /\ [][ \A e \in ExchangeIds :
            exch[e].onComplete # <<>> =>
                (exch'[e].onToken = exch[e].onToken
                    /\ exch'[e].onComplete = exch[e].onComplete) ]_vars

C6_Witness ==
    \E e, f \in ExchangeIds :
        /\ e # f
        /\ exch[e].onToken = << Fragment(1), Fragment(2) >>
        /\ exch[e].onComplete # <<>>
        /\ exch[f].client = exch[e].client
        /\ exch[f].cancelReq
        /\ instances = EmptyMap

\* C7: when the backend stream raises an error during a chat call: with no
\* stopGeneration requested before it, the error reaches the caller and
\* onComplete is not invoked; with one requested, the call returns the text
\* accumulated so far, raises nothing and does not invoke onComplete.
C7_ErrorOrCancel ==
    \A e \in ExchangeIds :
        (exch[e].pc = "done" /\ exch[e].stream = "failed") =>
            /\ exch[e].onComplete = <<>>
            /\ IF exch[e].cancelReq
                 THEN exch[e].outcome = "returned"
                        /\ exch[e].value = Flat(exch[e].onToken)
                 ELSE exch[e].outcome = "threw"
                        /\ exch[e].error = TransportError

\* C8: whenever a chat call fails with a transport error (the stream failed
\* while opening or being read, with no stopGeneration requested), the error
\* the caller receives is the original one and its message has been written
\* to the outputChannel.
C8_TransportErrorLogged ==
    \A e \in ExchangeIds :
        (exch[e].pc = "done" /\ exch[e].stream = "failed" /\ ~exch[e].cancelReq) =>
            /\ exch[e].outcome = "threw"
            /\ exch[e].error = TransportError
            /\ \E i \in DOMAIN outputChannel :
                   outputChannel[i] = ErrorLine(TransportError)

\* C9: a chat call started after a stopGeneration that fell while no exchange
\* was in flight on the adapter, with no further stopGeneration, processes
\* every chunk delivered, is not cut short, and on exhaustion invokes
\* onComplete once with the full text and returns it.
C9_ResetAtStart ==
    \A e \in ExchangeIds :
        (exch[e].afterIdleCancel /\ ~exch[e].cancelReq) =>
            /\ exch[e].onToken = EmittedTexts(e)
            /\ exch[e].pc = "done" => exch[e].stream \in {"ended", "failed"}
            /\ exch[e].stream = "ended" =>
                 /\ exch[e].onComplete = << Flat(EmittedTexts(e)) >>
                 /\ exch[e].outcome = "returned"
                 /\ exch[e].value = Flat(EmittedTexts(e))

C9_Witness ==
    \E e \in ExchangeIds :
        /\ exch[e].afterIdleCancel
        /\ ~exch[e].cancelReq
        /\ exch[e].stream = "ended"
        /\ Len(exch[e].onToken) = 2

\* C10: two successful createClient calls for different (provider, model)
\* pairs return different instances, and the instance returned for (P, M) was
\* constructed with provider P and model M.
C10_KeyIdentifiesPair ==
    \A c, d \in CallIds :
        (/\ calls[c].pc = "done" /\ calls[c].result.kind = "success"
         /\ calls[d].pc = "done" /\ calls[d].result.kind = "success") =>
            /\ clients[calls[c].result.client].config
                 = [provider |-> calls[c].provider, model |-> calls[c].model]
            /\ (<<calls[c].provider, calls[c].model>>
                    # <<calls[d].provider, calls[d].model>>) =>
                 calls[c].result.client # calls[d].result.client

\* C11: every createClient call resolves to a success with a client or to a
\* failure with a message, and never rejects, whatever the provider id and
\* the model id (a model the Model Registry does not know included); the step
\* that ends a call with a failure leaves the instance cache as it was.
C11_ConstructionNeverThrows ==
    [][ \A c \in CallIds :
          (calls[c].pc # "done" /\ calls'[c].pc = "done") =>
              /\ calls'[c].result.kind \in {"success", "failure"}
              /\ calls'[c].result.kind = "success" =>
                     calls'[c].result.client \in DOMAIN clients'
              /\ calls'[c].result.kind = "failure" => instances' = instances ]_vars

\* C12: an invalidate(P) that removes an adapter from the cache while a chat
\* call is in flight on it changes no chat call and no adapter (cancellation
\* flag, accumulated text, callbacks so far); afterwards the fragments passed
\* to onToken are still the delivered ones in order, and a call whose stream
\* is exhausted with no stopGeneration requested has invoked onComplete once
\* with the full text and returned it.
C12_InvalidateLeavesExchange ==
    /\ [][ instances' # instances =>
             (exch' = exch /\ clients' = clients) ]_vars
    /\ [](\A e \in ExchangeIds :
            (instances = EmptyMap /\ exch[e].pc # "idle" /\ ~exch[e].cancelReq) =>
                /\ InFlight(e) => ~clients[exch[e].client].isCancelled
                /\ exch[e].onToken = EmittedTexts(e)
                /\ exch[e].fullText = Flat(EmittedTexts(e))
                /\ exch[e].stream = "ended" =>
                     /\ exch[e].onComplete = << Flat(EmittedTexts(e)) >>
                     /\ exch[e].outcome = "returned"
                     /\ exch[e].value = Flat(EmittedTexts(e)))

\* The only chat call ever started was in flight, one fragment delivered,
\* when its adapter was removed from the cache, and has since completed.
C12_Witness ==
    /\ instances = EmptyMap
    /\ exch[1].pc = "done"
    /\ exch[1].stream = "ended"
    /\ ~exch[1].cancelReq
    /\ exch[1].onToken = << Fragment(1), Fragment(2) >>
    /\ exch[1].onComplete = << Fragment(1) \o Fragment(2) >>
    /\ \A e \in ExchangeIds : e # 1 => exch[e].pc = "idle"

\* C20: when a createClient(P, M) call resumes from its credential lookup and
\* constructs its adapter while the cache already holds, under the same key,
\* the instance another createClient(P, M) call returned (that call stored it
\* after this one had missed the cache), the resumed call returns a newly
\* constructed, different instance; the cache then maps the key to the
\* instance of the call that wrote last, and the instance the other caller
\* holds is no longer in the cache.
C20_DuplicateConstructionRace ==
    [][ \A c, d \in CallIds :
          (/\ c # d
           /\ calls[d].pc = "awaitKey"
           /\ calls'[d].pc = "done"
           /\ calls'[d].result.kind = "success"
           /\ calls[c].pc = "done"
           /\ calls[c].result.kind = "success"
           /\ calls[c].provider = calls[d].provider
           /\ calls[c].model = calls[d].model
           /\ getInstance(calls[c].provider, calls[c].model) = calls[c].result.client)
          =>
            /\ calls'[d].result.client # calls[c].result.client
            /\ calls'[d].result.client \notin DOMAIN clients
            /\ instanceKey(calls[d].provider, calls[d].model) \in DOMAIN instances'
            /\ instances'[instanceKey(calls[d].provider, calls[d].model)]
                 = calls'[d].result.client
            /\ \A k \in DOMAIN instances' : instances'[k] # calls[c].result.client
      ]_vars

\* Two calls for ('anthropic', 'c') with no invalidate('anthropic') since
\* either began have returned different instances; the cache holds one of
\* them and not the other.
C20_Witness ==
    \E c, d \in CallIds :
        /\ c # d
        /\ calls[c].pc = "done" /\ calls[c].result.kind = "success"
        /\ calls[d].pc = "done" /\ calls[d].result.kind = "success"
        /\ calls[c].provider = <<"anthropic">> /\ calls[c].model = <<"c">>
        /\ calls[d].provider = <<"anthropic">> /\ calls[d].model = <<"c">>
        /\ ~calls[c].stale /\ ~calls[d].stale
        /\ calls[c].result.client # calls[d].result.client
        /\ getInstance(<<"anthropic">>, <<"c">>) = calls[d].result.client
        /\ \A k \in DOMAIN instances : instances[k] # calls[c].result.client

\* C18: when two chat calls were in flight on the same adapter instance at a
\* stopGeneration, each of the two that receives a further chunk returns, at
\* that chunk, the text it had accumulated, passes the chunk to no callback and
\* never invokes onComplete.
C18_CancelCrossTalk ==
    [][ \A e, f \in SharedIds :
          (/\ e # f
           /\ exch[e].client = exch[f].client
           /\ exch[e].cancelReq
           /\ exch[f].cancelReq
           /\ Len(exch'[e].emitted) > Len(exch[e].emitted))
          =>
            /\ exch'[e].pc = "done"
            /\ exch'[e].outcome = "returned"
            /\ exch'[e].value = exch[e].fullText
            /\ exch'[e].onToken = exch[e].onToken
            /\ exch'[e].onComplete = <<>>
      ]_vars

\* C19: a chat call on which stopGeneration was called while it was in flight
\* returns, at the next chunk it receives, the text it had accumulated and
\* does not invoke onComplete, also when another chat call has started on the
\* same adapter instance in between.
C19_CancelSurvivesNewChat ==
    [][ \A e \in ExchangeIds :
          (/\ exch[e].cancelReq
           /\ Len(exch'[e].emitted) > Len(exch[e].emitted))
          =>
            /\ exch'[e].pc = "done"
            /\ exch'[e].outcome = "returned"
            /\ exch'[e].value = exch[e].fullText
            /\ exch'[e].onToken = exch[e].onToken
            /\ exch'[e].onComplete = <<>>
      ]_vars

\* A message is diagnostic when its string content starts with 'Mode.', or
\* when one of the text parts of its structured content (a text-typed part
\* with a text, or a bare string) does.
Diagnostic(msg) ==
    \/ msg.content.kind = "string" /\ StartsWith(msg.content.text, Sentinel)
    \/ /\ msg.content.kind = "array"
       /\ \E i \in DOMAIN msg.content.parts :
            /\ msg.content.parts[i].type \in {"string", "text"}
            /\ msg.content.parts[i].text # Undefined
            /\ StartsWith(msg.content.parts[i].text, Sentinel)

\* The j-th smallest element of a set of indexes.
Nth(indexes, j) ==
    CHOOSE i \in indexes : Cardinality({ k \in indexes : k <= i }) = j

\* C13: the output of filterDiagnosticMessages is exactly the messages of the
\* input that are not diagnostic, each unchanged and in the original order;
\* in particular a message whose structured content has no text part is kept.
C13_FilterDiagnostic ==
    request.pc = "built" =>
        LET input == request.messages
            output == request.filtered
            kept == { i \in DOMAIN input : ~Diagnostic(input[i]) }
        IN  /\ Len(output) = Cardinality(kept)
            /\ \A j \in DOMAIN output : output[j] = input[Nth(kept, j)]
            /\ \A i \in DOMAIN input :
                 (/\ input[i].content.kind = "array"
                  /\ \A p \in DOMAIN input[i].content.parts :
                       input[i].content.parts[p].type \notin {"string", "text"})
                 => \E j \in DOMAIN output : output[j] = input[i]

\* A message whose second part is a diagnostic text is dropped and the
\* message of one image part after it is kept.
C13_Witness ==
    /\ request.pc = "built"
    /\ request.messages =
         << AIMessage("user", Arr(<< Part("image", Undefined),
                                     Part("text", <<"Mode.", "x">>) >>), "none"),
            AIMessage("user", Arr(<< Part("image", Undefined) >>), "none") >>
    /\ request.filtered =
         << AIMessage("user", Arr(<< Part("image", Undefined) >>), "none") >>

\* What the anthropic request carries for a content: a string as one text
\* block, an image as an image block, structured content as it is.
Carries(sent, content) ==
    IF IsImageData(content)
      THEN sent.kind = "array" /\ sent.parts[1].type = "image"
      ELSE IF content.kind = "array"
        THEN sent = content
        ELSE sent = Arr(<< Part("text", content.text) >>)

\* C14: the request anthropicChat builds has no system-role entry in its
\* message array; the array holds the non-system messages that passed the
\* diagnostic filter, in their order; the system content is in the system
\* field only. For [system, user:"hi"] the array is the user turn alone.
C14_SystemHoisted ==
    (request.pc = "built" /\ request.provider = <<"anthropic">>) =>
        LET history == request.filtered
            sent == request.body.messages
            turns == { i \in DOMAIN history : history[i].role # "system" }
            systems == DOMAIN history \ turns
        IN  /\ \A j \in DOMAIN sent : sent[j].role # "system"
            /\ Len(sent) = Cardinality(turns)
            /\ \A j \in DOMAIN sent :
                 /\ sent[j].role = history[Nth(turns, j)].role
                 /\ Carries(sent[j].content, history[Nth(turns, j)].content)
            /\ request.body.system =
                 IF systems = {} THEN Undefined
                 ELSE history[Nth(systems, 1)].content
            /\ request.messages = << AIMessage("system", Str(<<"sys">>), "none"),
                                     AIMessage("user", Str(<<"hi">>), "none") >>
                 => /\ sent = << [role |-> "user",
                                  content |-> Arr(<< Part("text", <<"hi">>) >>)] >>
                    /\ request.body.system = Str(<<"sys">>)

C14_Witness ==
    /\ request.pc = "built"
    /\ request.provider = <<"anthropic">>
    /\ request.messages = << AIMessage("system", Str(<<"sys">>), "none"),
                             AIMessage("user", Str(<<"hi">>), "none") >>
    /\ Len(request.body.messages) = 1
    /\ request.body.system = Str(<<"sys">>)

\* C15: the request mistralChat or cohereChat builds of a history with image
\* messages holds, for each image message, an entry whose content is the
\* text '[Image input not supported for <provider>]', and no entry holds the
\* data URL.
C15_ImagePlaceholder ==
    (request.pc = "built" /\ request.provider \in { <<"mistral">>, <<"cohere">> }) =>
        LET images == { i \in DOMAIN request.messages :
                          IsImageData(request.messages[i].content) }
            sent == request.body.messages
        IN  /\ Cardinality({ j \in DOMAIN sent :
                   sent[j].content = Str(ImagePlaceholder(request.provider)) })
                 = Cardinality(images)
            /\ \A j \in DOMAIN sent : ~IsImageData(sent[j].content)

\* The summary call of sendMessage activation s failed: it threw, it returned
\* without onComplete (cancelled), or onComplete got the empty text.
SummaryFailed(s) ==
    LET x == exch[manager.send[s].summary]
    IN  \/ x.outcome = "threw"
        \/ x.onComplete = <<>>
        \/ x.onComplete[Len(x.onComplete)] = <<>>

\* C16: sendMessage returns, with the sessions saved, in the step in which the
\* summary call is issued, while that call is still in flight and no overview
\* is stored yet; however the summary call ends afterwards, the sendMessage
\* that returned stays returned; and the overview stored is never empty and
\* is 'New Chat' whenever the summary call threw, ended cancelled without
\* onComplete, or completed with empty text.
C16_SummaryNeverBlocksOrFails ==
    /\ [][ \A s \in SendIds :
             (manager.send[s].pc = "primary" /\ manager'.send[s].outcome = "returned") =>
                 /\ manager'.send[s].pc = "done"
                 /\ manager'.saved = manager.saved + 1
                 /\ manager'.overviews = manager.overviews
                 /\ manager'.send[s].overviewPc = "pending"
                 /\ manager'.send[s].summary # 0
                 /\ exch'[manager'.send[s].summary].pc = "opening" ]_vars
    /\ [][ \A s \in SendIds :
             manager.send[s].pc = "done" =>
                 /\ manager'.send[s].pc = "done"
                 /\ manager'.send[s].outcome = manager.send[s].outcome ]_vars
    /\ [](\A s \in SendIds :
             manager.send[s].overviewPc = "settled" =>
                 /\ manager.send[s].outcome = "returned"
                 /\ manager.send[s].overview # <<>>
                 /\ SummaryFailed(s) => manager.send[s].overview = NewChat
                 /\ ~SummaryFailed(s) =>
                        manager.send[s].overview =
                            Flat(EmittedTexts(manager.send[s].summary)))

\* The summary call of a sendMessage that had returned was cancelled in
\* mid-stream, and the overview stored is the default label.
C16_Witness ==
    \E s \in SendIds :
        /\ manager.send[s].overviewPc = "settled"
        /\ manager.send[s].outcome = "returned"
        /\ manager.saved >= 1
        /\ exch[manager.send[s].summary].cancelMid
        /\ exch[manager.send[s].summary].onComplete = <<>>
        /\ manager.send[s].overview = NewChat

\* sendMessage activation s reached the call of handleMessage.
Delegated(s) == manager.send[s].client # 0

\* C17 as stated: whatever the prompt settings, the session holds exactly one
\* system message when a sendMessage whose client initialization succeeded
\* delegates its exchange.
C17_ExactlyOneSystemMessage ==
    \A s \in SendIds :
        Delegated(s) => manager.send[s].systemAtDelegation = 1

\* C17, amended: the session never holds more than one system message; when
\* an exchange is delegated it holds exactly one, unless the pre-prompt is
\* disabled and the prompt override is empty at that call, in which case
\* sendMessage adds none and the session holds what it held before (none, for
\* a session that had no system message).
C17_AtMostOneSystemMessage ==
    /\ SystemCount(manager.messages) <= 1
    /\ \A s \in SendIds :
          Delegated(s) =>
              /\ manager.send[s].systemAtDelegation <= 1
              /\ manager.send[s].systemBefore <= manager.send[s].systemAtDelegation
              /\ ~manager.send[s].disableSystemPrompt =>
                     manager.send[s].systemAtDelegation = 1
              /\ manager.send[s].disableSystemPrompt =>
                     manager.send[s].systemAtDelegation = manager.send[s].systemBefore

\* A first exchange was delegated with the pre-prompt disabled and no
\* override, on a session without system message, and a later one with the
\* prompt enabled: the system message was added then, behind the first
\* exchange.
C17_Witness ==
    \E s, t \in SendIds :
        /\ s < t
        /\ Delegated(s) /\ Delegated(t)
        /\ manager.send[s].disableSystemPrompt
        /\ manager.send[s].systemAtDelegation = 0
        /\ ~manager.send[t].disableSystemPrompt
        /\ manager.send[t].systemBefore = 0
        /\ manager.send[t].systemAtDelegation = 1
        /\ manager.messages[Len(manager.messages)].role # "system"

\* What the caller of a chat call observes of it: the calls of its callbacks,
\* and whether and how the call has ended.
Observed(x) ==
    [ onToken |-> x.onToken, onComplete |-> x.onComplete, ended |-> x.pc = "done",
      outcome |-> x.outcome, value |-> x.value, error |-> x.error ]

\* C21: the five adapters, given the same events at the same points, show
\* the same onToken sequence, the same onComplete call or none, and the same
\* result, at every point.
C21_AdaptersAgree ==
    \A e, f \in DOMAIN exch : Observed(exch[e]) = Observed(exch[f])

\* C22: an exchange the manager delegates for a model of provider P, in a
\* sendMessage that found its client at hand or whose createClient call began
\* after the last invalidate(P), runs on the instance the cache holds for that
\* provider and model, never on an evicted one.
C22_NoEvictedClient ==
    [][ \A s \in SendIds :
          (/\ manager.send[s].pc # "primary"
           /\ manager'.send[s].pc = "primary"
           /\ \/ manager.send[s].pc = "idle"
              \/ ~calls[manager.send[s].call].stale)
          => getInstance(ProviderOfModel(manager'.send[s].model),
                         manager'.send[s].model) = manager'.send[s].client
      ]_vars

\* The chunk exchange e took in a step, if it took one.
TookChunk(e) == Len(exch'[e].emitted) = Len(exch[e].emitted) + 1

\* C23: at every point of every chat call the accumulated text is the
\* concatenation, in order, of the fragments passed to onToken so far; no
\* fragment passed to onToken is empty; a chunk with an empty text or of a
\* kind that carries none leaves the accumulator and both callbacks as they
\* were, and a chunk with text, taken by a call that is not cancelled, puts
\* its text at the end of both; what a call returns and what it passes to
\* onComplete is the concatenation of the fragments it passed to onToken.
C23_Accumulator ==
    /\ [](\A e \in DOMAIN exch :
             /\ exch[e].fullText = Flat(exch[e].onToken)
             /\ \A i \in DOMAIN exch[e].onToken : exch[e].onToken[i] # <<>>
             /\ exch[e].outcome = "returned" => exch[e].value = Flat(exch[e].onToken)
             /\ \A i \in DOMAIN exch[e].onComplete :
                    exch[e].onComplete[i] = Flat(exch[e].onToken))
    /\ [][ \A e \in DOMAIN exch :
             TookChunk(e) =>
               LET chunk == exch'[e].emitted[Len(exch'[e].emitted)]
                   text == ExtractText(ProviderOf(e), chunk)
               IN  /\ exch'[e].onComplete = exch[e].onComplete
                   /\ (text = <<>> \/ clients[exch[e].client].isCancelled) =>
                          /\ exch'[e].fullText = exch[e].fullText
                          /\ exch'[e].onToken = exch[e].onToken
                   /\ (text # <<>> /\ ~clients[exch[e].client].isCancelled) =>
                          /\ exch'[e].fullText = exch[e].fullText \o text
                          /\ exch'[e].onToken = Append(exch[e].onToken, text) ]_vars

\* A call took a chunk with text and a chunk without, and completed with the
\* text of the one.
C23_Witness ==
    \E e \in DOMAIN exch :
        /\ exch[e].pc = "done"
        /\ \E i, j \in DOMAIN exch[e].emitted :
              /\ ExtractText(ProviderOf(e), exch[e].emitted[i]) # <<>>
              /\ ExtractText(ProviderOf(e), exch[e].emitted[j]) = <<>>
        /\ Len(exch[e].onToken) = 1
        /\ exch[e].onComplete = << Flat(exch[e].onToken) >>
        /\ exch[e].value = exch[e].onToken[1]

\* The three ways a chat call ends.
Completed(e) ==
    /\ exch[e].outcome = "returned"
    /\ exch[e].onComplete = << exch[e].fullText >>
    /\ exch[e].value = exch[e].fullText
    /\ exch[e].fullText = Flat(EmittedTexts(e))
    /\ exch[e].stream = "ended"
    /\ exch[e].error = <<>>

Cancelled(e) ==
    /\ exch[e].outcome = "returned"
    /\ exch[e].onComplete = <<>>
    /\ exch[e].value = exch[e].fullText
    /\ exch[e].cancelReq
    /\ exch[e].error = <<>>

Failed(e) ==
    /\ exch[e].outcome = "threw"
    /\ exch[e].onComplete = <<>>
    /\ exch[e].error # <<>>

\* C24: when the backend answers, every chat call that was started ends; a
\* call that has ended has completed (onComplete invoked once with the full
\* text, which is returned), or was cancelled (stopGeneration fell into it,
\* its text so far is returned, onComplete is not invoked, no error), or has
\* failed (the error is propagated, onComplete is not invoked), and never two
\* of these; a call that has not ended has no outcome.
C24_ThreeOutcomes ==
    /\ [](\A e \in StreamIds :
             /\ exch[e].pc = "done" =>
                    /\ Completed(e) \/ Cancelled(e) \/ Failed(e)
                    /\ ~(Completed(e) /\ Cancelled(e))
                    /\ ~(Completed(e) /\ Failed(e))
                    /\ ~(Cancelled(e) /\ Failed(e))
             /\ exch[e].pc # "done" =>
                    exch[e].outcome = "none" /\ exch[e].onComplete = <<>>)
    /\ \A e \in StreamIds : (exch[e].pc # "idle") ~> (exch[e].pc = "done")

\* A call was cancelled between two chunks and returned the text of the
\* first.
C24_Witness ==
    \E e \in StreamIds :
        /\ exch[e].pc = "done"
        /\ Cancelled(e)
        /\ Len(exch[e].emitted) = 2
        /\ exch[e].onToken = << Fragment(1) >>
        /\ exch[e].value = Fragment(1)

====
